---- MODULE Spec2Model ----
(***************************************************************************)
(* The CircleCI environment-variable provider: the API client              *)
(* (AddEnvironmentVariable, EnvironmentVariableExists,                     *)
(* GetEnvironmentVariable, DeleteEnvironmentVariable) and the resource     *)
(* lifecycle adapter (Create, Read, Delete, Exists) that the host engine   *)
(* drives.  Every HTTP round-trip is one step, so that calls on different  *)
(* records and an out-of-band writer interleave between round-trips.       *)
(***************************************************************************)
EXTENDS Integers, Sequences, FiniteSets, TLC

VARIABLES
    cfg,      \* record -> the desired-state record (project, name, value)
    d,        \* record -> the ResourceData: id, name, value as kept in state
    pc,       \* record -> position of the lifecycle call in flight
    ret,      \* record -> what the last finished lifecycle call returned
    http,     \* record -> the HTTP exchanges of the current/last call
    remote,   \* the remote store: the (project, name) keys that exist
    call      \* the last direct call of a client method (client harness)

vars == <<cfg, d, pc, ret, http, remote, call>>

(***************************************************************************)
(* Bounds                                                                  *)
(***************************************************************************)
\* longest name of a record when two records are managed together
MaxNameLen == 1
\* longest name of a record managed alone, and of a direct client call
MaxSoloNameLen == 2

Records == {"r1", "r2"}
Projects == {"project1"}
Values == {"value", "hunter2"}
\* one letter, one digit, the underscore and one symbol
Alphabet == {"a", "1", "_", "-"}

NamesUpTo(n) == UNION {[1..k -> Alphabet] : k \in 0..n}

(***************************************************************************)
(* Name validation                                                         *)
(***************************************************************************)
IsAlpha(c) == c \in {"a"}
IsWord(c) == c \in {"a", "1", "_"}

\* a mutant: the first character class is [[:word:]] too
ValidateAnyWord(name) ==
    \E k \in 1..Len(name) :
        /\ \A i \in 1..k : IsWord(name[i])
        /\ \A i \in (k+1)..Len(name) : IsWord(name[i])

\* envVarNameRegexp.MatchString(name) for ^[[:alpha:]]+[[:word:]]*$
ValidateEnvironmentVariableName(name) ==
    \E k \in 1..Len(name) :
        /\ \A i \in 1..k : IsAlpha(name[i])
        /\ \A i \in (k+1)..Len(name) : IsWord(name[i])

\* the errors validateName returns (the warnings are always nil)
validateName(v) ==
    IF ~ValidateEnvironmentVariableName(v)
    THEN <<[kind |-> "validation", name |-> v]>>
    ELSE <<>>

(***************************************************************************)
(* hashString: base64(sha256(str)), tabulated over Values                  *)
(***************************************************************************)
hashString(str) ==
    CASE str = "value"   -> "zUJATVKtVcz6mspK3IKKpYAK2dOFoGcfvL9yQRgyBhk="
      [] str = "hunter2" -> "9S+9MrKzuG/4jvbEkGKChfSCrxXdyylUH5S89Saj9sc="
      [] str = ""        -> "47DEQpj8HBSa+/TImW+5JCeuQeRkm5NMpJWZG3hSuFU="

(***************************************************************************)
(* Errors and HTTP messages                                                *)
(***************************************************************************)
StatusOK == 200
StatusCreated == 201
StatusNotFound == 404

Nil == [kind |-> "nil"]
TransportError == [kind |-> "transport"]
DecodeError == [kind |-> "decode"]
StatusError(msg, code) == [kind |-> "status", msg |-> msg, code |-> code]

NilEnvVar == [isNil |-> TRUE, name |-> <<>>, value |-> ""]
EnvironmentVariable(name, value) ==
    [isNil |-> FALSE, name |-> name, value |-> value]

\* a response: a transport failure, or a status with a body
NoBody == [json |-> FALSE, name |-> <<>>, value |-> ""]
JsonBody(name, value) == [json |-> TRUE, name |-> name, value |-> value]
Response(status, body) == [terr |-> FALSE, status |-> status, body |-> body]
TransportFailure == [terr |-> TRUE, status |-> 0, body |-> NoBody]

\* a request: the method, the project of the URL, the variable name (in the
\* URL, or in the body of a POST) and the value (the body of a POST)
Request(method, project, name, value) ==
    [method |-> method, project |-> project, name |-> name, value |-> value]

(***************************************************************************)
(* API client: what each method returns for a response                     *)
(***************************************************************************)
AddRequest(projectName, envName, envValue) ==
    Request("POST", projectName, envName, envValue)

\* a mutant: any 2xx status passes for created
AddAcceptsOK(resp) ==
    IF resp.terr THEN TransportError
    ELSE IF resp.status \notin {StatusOK, StatusCreated}
    THEN StatusError("client: create wrong status code", resp.status)
    ELSE Nil

AddEnvironmentVariable(resp) ==
    IF resp.terr THEN TransportError
    ELSE IF resp.status # StatusCreated
    THEN StatusError("client: create wrong status code", resp.status)
    ELSE Nil

ExistsRequest(projectName, envName) ==
    Request("HEAD", projectName, envName, "")

\* a mutant: not-found is an error like any other status
ExistsNotFoundIsError(resp) ==
    IF resp.terr THEN [exists |-> FALSE, err |-> TransportError]
    ELSE IF resp.status # StatusOK
    THEN [exists |-> FALSE,
          err |-> StatusError("circleci: wrong status code getting environment variable",
                              resp.status)]
    ELSE [exists |-> TRUE, err |-> Nil]

EnvironmentVariableExists(resp) ==
    IF resp.terr THEN [exists |-> FALSE, err |-> TransportError]
    ELSE IF resp.status # StatusOK
    THEN IF resp.status = StatusNotFound
         THEN [exists |-> FALSE, err |-> Nil]
         ELSE [exists |-> FALSE,
               err |-> StatusError("circleci: wrong status code getting environment variable",
                                   resp.status)]
    ELSE [exists |-> TRUE, err |-> Nil]

GetRequest(projectName, envName) ==
    Request("GET", projectName, envName, "")

GetEnvironmentVariable(resp) ==
    IF resp.terr THEN [envVar |-> NilEnvVar, err |-> TransportError]
    ELSE IF resp.status # StatusOK
    THEN [envVar |-> NilEnvVar,
          err |-> StatusError("circleci: wrong status code getting environment variable",
                              resp.status)]
    ELSE IF ~resp.body.json
    THEN [envVar |-> NilEnvVar, err |-> DecodeError]
    ELSE [envVar |-> EnvironmentVariable(resp.body.name, resp.body.value),
          err |-> Nil]

DeleteRequest(projectName, envName) ==
    Request("DELETE", projectName, envName, "")

DeleteEnvironmentVariable(resp) ==
    IF resp.terr THEN TransportError
    ELSE IF resp.status # StatusOK
    THEN StatusError("circleci: wrong status code deleting environment variable",
                     resp.status)
    ELSE Nil

(***************************************************************************)
(* The remote API: the variable store behind the four endpoints.  A        *)
(* request gets the endpoint's answer for the store as it is, or a fault:  *)
(* an error status, a failed round-trip, or (for the two writes) a         *)
(* round-trip that fails after the write took effect.                      *)
(***************************************************************************)
FaultCodes == {400, 500}
\* the value in the body of a GET: masked, or echoed
ReturnedValues == {"xxxx", "value"}

Key(project, name) == <<project, name>>

Answer(resp, store) == [resp |-> resp, store |-> store]

Serve(req, store) ==
    LET key == Key(req.project, req.name)
        faults == {Answer(Response(c, NoBody), store) : c \in FaultCodes}
                      \cup {Answer(TransportFailure, store)}
        served ==
            CASE req.method = "HEAD" ->
                   {Answer(Response(IF key \in store THEN StatusOK
                                    ELSE StatusNotFound, NoBody), store)}
              [] req.method = "POST" ->
                   {Answer(Response(StatusCreated, NoBody), store \cup {key}),
                    Answer(TransportFailure, store \cup {key})}
              [] req.method = "GET" ->
                   IF key \in store
                   THEN {Answer(Response(StatusOK, JsonBody(req.name, v)), store) :
                            v \in ReturnedValues}
                        \cup {Answer(Response(StatusOK, NoBody), store)}
                   ELSE {Answer(Response(StatusNotFound, NoBody), store)}
              [] req.method = "DELETE" ->
                   IF key \in store
                   THEN {Answer(Response(StatusOK, NoBody), store \ {key}),
                         Answer(TransportFailure, store \ {key})}
                   ELSE {Answer(Response(StatusNotFound, NoBody), store)}
    IN  served \cup faults

(***************************************************************************)
(* Resource lifecycle adapter                                              *)
(***************************************************************************)
NoData == [id |-> <<>>, name |-> <<>>, value |-> ""]
SetId(dr, id) == [dr EXCEPT !.id = id]

ConflictError(envName, projectName) ==
    [kind |-> "conflict", name |-> envName, project |-> projectName]
PanicFault(projectName, envName) ==
    [kind |-> "panic", project |-> projectName, name |-> envName]

\* a mutant: an existing variable is adopted, the creation request follows
CreateAdoptsExisting(dr, projectName, resp) ==
    LET res == EnvironmentVariableExists(resp)
    IN  IF res.err # Nil
        THEN [next |-> "return", d |-> dr, err |-> res.err]
        ELSE [next |-> "create_add", d |-> dr, err |-> Nil]

\* resourceCircleCIEnvironmentVariableCreate, after the existence check
CreateAfterExists(dr, projectName, resp) ==
    LET res == EnvironmentVariableExists(resp)
    IN  IF res.err # Nil
        THEN [next |-> "return", d |-> dr, err |-> res.err]
        ELSE IF res.exists
        THEN [next |-> "return", d |-> dr,
              err |-> ConflictError(dr.name, projectName)]
        ELSE [next |-> "create_add", d |-> dr, err |-> Nil]

\* a mutant: the identity is set before the creation request's error is looked at
CreateSetsIdFirst(dr, resp) ==
    LET err == AddEnvironmentVariable(resp)
    IN  IF err # Nil
        THEN [next |-> "return", d |-> SetId(dr, dr.name), err |-> err]
        ELSE [next |-> "create_read", d |-> SetId(dr, dr.name), err |-> Nil]

\* a mutant: a failed creation request is sent again
CreateRetriesAdd(dr, resp) ==
    LET err == AddEnvironmentVariable(resp)
    IN  IF err # Nil
        THEN [next |-> "create_add", d |-> dr, err |-> Nil]
        ELSE [next |-> "create_read", d |-> SetId(dr, dr.name), err |-> Nil]

\* resourceCircleCIEnvironmentVariableCreate, after the creation request
CreateAfterAdd(dr, resp) ==
    LET err == AddEnvironmentVariable(resp)
    IN  IF err # Nil
        THEN [next |-> "return", d |-> dr, err |-> err]
        ELSE [next |-> "create_read", d |-> SetId(dr, dr.name), err |-> Nil]

\* a mutant: the value the remote returned is stored too
ResourceReadStoresValue(dr, resp) ==
    LET got == GetEnvironmentVariable(resp)
    IN  IF got.err # Nil
        THEN [d |-> dr, err |-> got.err]
        ELSE [d |-> [dr EXCEPT !.name = got.envVar.name,
                               !.value = got.envVar.value],
              err |-> Nil]

\* resourceCircleCIEnvironmentVariableRead, after the GET
ResourceRead(dr, resp) ==
    LET got == GetEnvironmentVariable(resp)
    IN  IF got.err # Nil
        THEN [d |-> dr, err |-> got.err]
        ELSE [d |-> [dr EXCEPT !.name = got.envVar.name], err |-> Nil]

\* a mutant: a variable the remote no longer has counts as deleted
ResourceDeleteIgnoresNotFound(dr, resp) ==
    LET err == DeleteEnvironmentVariable(resp)
    IN  IF err # Nil /\ ~(err.kind = "status" /\ err.code = StatusNotFound)
        THEN [d |-> dr, err |-> err]
        ELSE [d |-> SetId(dr, <<>>), err |-> Nil]

\* resourceCircleCIEnvironmentVariableDelete, after the DELETE
ResourceDelete(dr, resp) ==
    LET err == DeleteEnvironmentVariable(resp)
    IN  IF err # Nil
        THEN [d |-> dr, err |-> err]
        ELSE [d |-> SetId(dr, <<>>), err |-> Nil]

\* resourceCircleCIEnvironmentVariableExists: the panic precedes the call of
\* the client, which is never reached
ResourceExists(dr, projectName) ==
    [requests |-> <<>>, exists |-> FALSE,
     err |-> PanicFault(projectName, dr.name)]

(***************************************************************************)
(* State machine                                                           *)
(***************************************************************************)
NoReturn == [op |-> "none", exists |-> FALSE, err |-> Nil]
Return(op, exists, err) == [op |-> op, exists |-> exists, err |-> err]
NoCall == [op |-> "none"]

Exchange(req, resp) == [req |-> req, resp |-> resp]

InitWith(R, names) ==
    /\ cfg \in [R -> [project : Projects, name : names, value : Values]]
    /\ d = [r \in R |-> NoData]
    /\ pc = [r \in R |-> "idle"]
    /\ ret = [r \in R |-> NoReturn]
    /\ http = [r \in R |-> <<>>]
    /\ remote = {}
    /\ call = NoCall

\* two records managed together
Init == InitWith(Records, NamesUpTo(MaxNameLen))

\* the engine validates the record's fields against the schema
\* (ValidateFunc of name) and, for a valid record that is absent, builds the
\* ResourceData of the Create to come: name as configured, value through the
\* StateFunc of the schema
Plan(r) ==
    /\ pc[r] = "idle"
    /\ d[r].id = <<>>
    /\ LET errors == validateName(cfg[r].name)
       IN  IF Len(errors) # 0
           THEN /\ ret' = [ret EXCEPT ![r] = Return("validate", FALSE, errors[1])]
                /\ UNCHANGED <<d, pc>>
           ELSE /\ d' = [d EXCEPT ![r] = [id |-> <<>>, name |-> cfg[r].name,
                                         value |-> hashString(cfg[r].value)]]
                /\ pc' = [pc EXCEPT ![r] = "create_exists"]
                /\ ret' = [ret EXCEPT ![r] = NoReturn]
    /\ http' = [http EXCEPT ![r] = <<>>]
    /\ UNCHANGED <<cfg, remote, call>>

\* Create: the existence check
CreateExists(r) ==
    /\ pc[r] = "create_exists"
    /\ LET req == ExistsRequest(cfg[r].project, cfg[r].name)
       IN  \E a \in Serve(req, remote) :
             LET out == CreateAfterExists(d[r], cfg[r].project, a.resp)
             IN  /\ http' = [http EXCEPT ![r] = Append(@, Exchange(req, a.resp))]
                 /\ remote' = a.store
                 /\ d' = [d EXCEPT ![r] = out.d]
                 /\ IF out.next = "return"
                    THEN /\ pc' = [pc EXCEPT ![r] = "idle"]
                         /\ ret' = [ret EXCEPT ![r] = Return("create", FALSE, out.err)]
                    ELSE /\ pc' = [pc EXCEPT ![r] = out.next]
                         /\ UNCHANGED ret
    /\ UNCHANGED <<cfg, call>>

\* Create: the creation request, and SetId when it succeeded
CreateAdd(r) ==
    /\ pc[r] = "create_add"
    /\ LET req == AddRequest(cfg[r].project, cfg[r].name, cfg[r].value)
       IN  \E a \in Serve(req, remote) :
             LET out == CreateAfterAdd(d[r], a.resp)
             IN  /\ http' = [http EXCEPT ![r] = Append(@, Exchange(req, a.resp))]
                 /\ remote' = a.store
                 /\ d' = [d EXCEPT ![r] = out.d]
                 /\ IF out.next = "return"
                    THEN /\ pc' = [pc EXCEPT ![r] = "idle"]
                         /\ ret' = [ret EXCEPT ![r] = Return("create", FALSE, out.err)]
                    ELSE /\ pc' = [pc EXCEPT ![r] = out.next]
                         /\ UNCHANGED ret
    /\ UNCHANGED <<cfg, call>>

\* Create: the Read that ends it
CreateRead(r) ==
    /\ pc[r] = "create_read"
    /\ LET req == GetRequest(cfg[r].project, d[r].name)
       IN  \E a \in Serve(req, remote) :
             LET out == ResourceRead(d[r], a.resp)
             IN  /\ http' = [http EXCEPT ![r] = Append(@, Exchange(req, a.resp))]
                 /\ remote' = a.store
                 /\ d' = [d EXCEPT ![r] = out.d]
                 /\ pc' = [pc EXCEPT ![r] = "idle"]
                 /\ ret' = [ret EXCEPT ![r] = Return("create", FALSE, out.err)]
    /\ UNCHANGED <<cfg, call>>

\* Read of a present record
Read(r) ==
    /\ pc[r] = "idle"
    /\ d[r].id # <<>>
    /\ LET req == GetRequest(cfg[r].project, d[r].name)
       IN  \E a \in Serve(req, remote) :
             LET out == ResourceRead(d[r], a.resp)
             IN  /\ http' = [http EXCEPT ![r] = <<Exchange(req, a.resp)>>]
                 /\ remote' = a.store
                 /\ d' = [d EXCEPT ![r] = out.d]
                 /\ ret' = [ret EXCEPT ![r] = Return("read", FALSE, out.err)]
    /\ UNCHANGED <<cfg, pc, call>>

\* Delete of a present record
Delete(r) ==
    /\ pc[r] = "idle"
    /\ d[r].id # <<>>
    /\ LET req == DeleteRequest(cfg[r].project, d[r].name)
       IN  \E a \in Serve(req, remote) :
             LET out == ResourceDelete(d[r], a.resp)
             IN  /\ http' = [http EXCEPT ![r] = <<Exchange(req, a.resp)>>]
                 /\ remote' = a.store
                 /\ d' = [d EXCEPT ![r] = out.d]
                 /\ ret' = [ret EXCEPT ![r] = Return("delete", FALSE, out.err)]
    /\ UNCHANGED <<cfg, pc, call>>

\* Exists of a present record
Exists(r) ==
    /\ pc[r] = "idle"
    /\ d[r].id # <<>>
    /\ LET out == ResourceExists(d[r], cfg[r].project)
       IN  /\ http' = [http EXCEPT ![r] = out.requests]
           /\ ret' = [ret EXCEPT ![r] = Return("exists", out.exists, out.err)]
    /\ UNCHANGED <<cfg, d, pc, remote, call>>

\* the keys the remote accepts: it enforces the name format itself
Keys ==
    {Key(cfg[r].project, cfg[r].name) :
        r \in {x \in DOMAIN cfg : ValidateEnvironmentVariableName(cfg[x].name)}}

\* somebody else creates or overwrites a variable
OutOfBandCreate(k) ==
    /\ k \notin remote
    /\ remote' = remote \cup {k}
    /\ UNCHANGED <<cfg, d, pc, ret, http, call>>

\* somebody else deletes a variable
OutOfBandDelete(k) ==
    /\ k \in remote
    /\ remote' = remote \ {k}
    /\ UNCHANGED <<cfg, d, pc, ret, http, call>>

Next ==
    \/ \E r \in DOMAIN cfg : Plan(r)
    \/ \E r \in DOMAIN cfg : CreateExists(r)
    \/ \E r \in DOMAIN cfg : CreateAdd(r)
    \/ \E r \in DOMAIN cfg : CreateRead(r)
    \/ \E r \in DOMAIN cfg : Read(r)
    \/ \E r \in DOMAIN cfg : Delete(r)
    \/ \E r \in DOMAIN cfg : Exists(r)
    \/ \E k \in Keys : OutOfBandCreate(k)
    \/ \E k \in Keys : OutOfBandDelete(k)

Spec == Init /\ [][Next]_vars

\* one record managed alone, with longer names
InitSolo == InitWith({"r1"}, NamesUpTo(MaxSoloNameLen))

SpecSolo == InitSolo /\ [][Next]_vars

(***************************************************************************)
(* Client harness: each client method called directly on a response, as    *)
(* the tests of the client do with a stub round-tripper, one call a run     *)
(***************************************************************************)
StatusCodes == {200, 201, 204, 400, 404, 500}

Responses(name) ==
    {TransportFailure}
        \cup {Response(s, b) :
                 s \in StatusCodes,
                 b \in {NoBody} \cup {JsonBody(name, v) : v \in ReturnedValues}}

Called(op, req, resp, exists, envVar, err) ==
    [op |-> op, req |-> req, resp |-> resp,
     exists |-> exists, envVar |-> envVar, err |-> err]

InitClient == InitWith({}, NamesUpTo(0))

ClientAdd ==
    /\ call.op = "none"
    /\ \E p \in Projects, n \in NamesUpTo(MaxSoloNameLen), v \in Values :
         \E resp \in Responses(n) :
           call' = Called("add", AddRequest(p, n, v), resp,
                          FALSE, NilEnvVar, AddEnvironmentVariable(resp))
    /\ UNCHANGED <<cfg, d, pc, ret, http, remote>>

ClientExists ==
    /\ call.op = "none"
    /\ \E p \in Projects, n \in NamesUpTo(MaxSoloNameLen) :
         \E resp \in Responses(n) :
           LET res == EnvironmentVariableExists(resp)
           IN  call' = Called("exists", ExistsRequest(p, n), resp,
                              res.exists, NilEnvVar, res.err)
    /\ UNCHANGED <<cfg, d, pc, ret, http, remote>>

ClientGet ==
    /\ call.op = "none"
    /\ \E p \in Projects, n \in NamesUpTo(MaxSoloNameLen) :
         \E resp \in Responses(n) :
           LET got == GetEnvironmentVariable(resp)
           IN  call' = Called("get", GetRequest(p, n), resp,
                              FALSE, got.envVar, got.err)
    /\ UNCHANGED <<cfg, d, pc, ret, http, remote>>

ClientDelete ==
    /\ call.op = "none"
    /\ \E p \in Projects, n \in NamesUpTo(MaxSoloNameLen) :
         \E resp \in Responses(n) :
           call' = Called("delete", DeleteRequest(p, n), resp,
                          FALSE, NilEnvVar, DeleteEnvironmentVariable(resp))
    /\ UNCHANGED <<cfg, d, pc, ret, http, remote>>

NextClient == ClientAdd \/ ClientExists \/ ClientGet \/ ClientDelete

SpecClient == InitClient /\ [][NextClient]_vars

(***************************************************************************)
(* Properties                                                              *)
(***************************************************************************)
\* the name format: a letter first, then letters, digits or underscores
NameFormat(name) ==
    /\ Len(name) >= 1
    /\ IsAlpha(name[1])
    /\ \A i \in 2..Len(name) : IsWord(name[i])

Methods(r) == {http[r][i].req.method : i \in 1..Len(http[r])}

\* C1: when the existence check of a Create returns true, Create fails with
\* a conflict error naming the variable and the project, has sent no
\* creation request, and leaves the identity of the record empty.
CreateConflict ==
    \A r \in DOMAIN cfg :
        (/\ ret[r].op = "create"
         /\ EnvironmentVariableExists(http[r][1].resp).exists)
        => /\ ret[r].err = ConflictError(cfg[r].name, cfg[r].project)
           /\ "POST" \notin Methods(r)
           /\ d[r].id = <<>>

CreateConflictWitness ==
    \E r \in DOMAIN cfg :
        /\ ret[r].op = "create"
        /\ http[r][1].resp.status = 200
        /\ ret[r].err.kind = "conflict"
        /\ Key(cfg[r].project, cfg[r].name) \in remote

\* C2 as stated: whenever Create returns an error, whichever step failed,
\* the identity of the record is empty.
CreateErrorLeavesAbsent ==
    \A r \in DOMAIN cfg :
        (ret[r].op = "create" /\ ret[r].err # Nil) => d[r].id = <<>>

\* C2 amended: when Create returns an error from the existence check or the
\* creation request the identity is empty; when the error comes from the
\* Read that follows a successful creation request, the identity is already
\* set to the variable name.
CreateErrorIdentity ==
    \A r \in DOMAIN cfg :
        (ret[r].op = "create" /\ ret[r].err # Nil)
        => IF http[r][Len(http[r])].req.method = "GET"
           THEN d[r].id = cfg[r].name
           ELSE d[r].id = <<>>

CreateErrorIdentityWitness ==
    \E r \in DOMAIN cfg :
        /\ ret[r].op = "create"
        /\ ret[r].err # Nil
        /\ Len(http[r]) = 3
        /\ http[r][2].resp.status = 201
        /\ d[r].id # <<>>

\* C3: Exists sends the existence check of the client for the record's
\* (project, name) and returns exactly the client's result, with no fault
\* of its own.
ExistsDelegates ==
    \A r \in DOMAIN cfg :
        ret[r].op = "exists"
        => /\ ret[r].err.kind # "panic"
           /\ Len(http[r]) = 1
           /\ http[r][1].req = ExistsRequest(cfg[r].project, cfg[r].name)
           /\ [exists |-> ret[r].exists, err |-> ret[r].err]
                  = EnvironmentVariableExists(http[r][1].resp)

ValueIsHashed ==
    \A r \in DOMAIN cfg :
        /\ d[r].value \notin Values \cup ReturnedValues
        /\ d[r].value \in {"", hashString(cfg[r].value)}
        /\ d[r].id # <<>> => d[r].value = hashString(cfg[r].value)

ValueIsHashedWitness ==
    \E r \in DOMAIN cfg :
        /\ ret[r].op = "read"
        /\ ret[r].err = Nil
        /\ http[r][1].resp.body.value = cfg[r].value
        /\ d[r].name = cfg[r].name
        /\ d[r].value = hashString(cfg[r].value)

\* C6: Delete clears the identity exactly when the DELETE was answered 200;
\* on any other outcome the error is returned (with the status it carries)
\* and the identity is left as it was.
DeleteClearsIdOnSuccess ==
    \A r \in DOMAIN cfg :
        ret[r].op = "delete"
        => LET resp == http[r][1].resp
           IN  IF ~resp.terr /\ resp.status = 200
               THEN ret[r].err = Nil /\ d[r].id = <<>>
               ELSE /\ ret[r].err # Nil
                    /\ d[r].id = cfg[r].name
                    /\ ~resp.terr => /\ ret[r].err.kind = "status"
                                     /\ ret[r].err.code = resp.status

DeleteNotFoundWitness ==
    \E r \in DOMAIN cfg :
        /\ ret[r].op = "delete"
        /\ http[r][1].resp.status = 404
        /\ Key(cfg[r].project, cfg[r].name) \notin remote
        /\ ret[r].err.kind = "status"
        /\ d[r].id # <<>>

\* C7: the existence check of the client gives (true, nil) for 200,
\* (false, nil) for 404, (false, error) for every other status and for a
\* transport failure.
ExistsStatusMapping ==
    call.op = "exists"
    => LET resp == call.resp
       IN  /\ resp.terr => ~call.exists /\ call.err # Nil
           /\ (~resp.terr /\ resp.status = 200)
                  => call.exists /\ call.err = Nil
           /\ (~resp.terr /\ resp.status = 404)
                  => ~call.exists /\ call.err = Nil
           /\ (~resp.terr /\ resp.status \notin {200, 404})
                  => /\ ~call.exists
                     /\ call.err # Nil

ExistsNotFoundWitness ==
    /\ call.op = "exists"
    /\ ~call.resp.terr
    /\ call.resp.status = 404
    /\ ~call.exists
    /\ call.err = Nil

\* the status that makes the client's Create, Read and Delete succeed
SuccessCode(op) ==
    CASE op = "add" -> 201
      [] op = "get" -> 200
      [] op = "delete" -> 200

\* C8: the client's Create, Read and Delete succeed only on their own
\* success status (201, 200, 200); every other status gives an error that
\* carries the status received, and Read then returns a nil result.
ClientStatusMapping ==
    call.op \in {"add", "get", "delete"}
    => /\ call.err = Nil
          => ~call.resp.terr /\ call.resp.status = SuccessCode(call.op)
       /\ (~call.resp.terr /\ call.resp.status # SuccessCode(call.op))
          => /\ call.err.kind = "status"
             /\ call.err.code = call.resp.status
             /\ call.op = "get" => call.envVar.isNil

CreateWith200Witness ==
    /\ call.op = "add"
    /\ ~call.resp.terr
    /\ call.resp.status = 200
    /\ call.err.kind = "status"
    /\ call.err.code = 200

\* C9 as stated: every lifecycle call issues at most two HTTP requests.
AtMostTwoRequests ==
    \A r \in DOMAIN cfg : Len(http[r]) <= 2

\* C9 amended: every lifecycle call issues at most three HTTP requests: the
\* fully successful Create issues exactly three (existence check, creation
\* request, read), and Read, Delete and Exists at most one.
AtMostThreeRequests ==
    \A r \in DOMAIN cfg :
        /\ Len(http[r]) <= 3
        /\ ret[r].op \in {"read", "delete", "exists"} => Len(http[r]) <= 1
        /\ (ret[r].op = "create" /\ ret[r].err = Nil)
           => /\ Len(http[r]) = 3
              /\ <<http[r][1].req.method, http[r][2].req.method,
                   http[r][3].req.method>> = <<"HEAD", "POST", "GET">>

SuccessfulCreateWitness ==
    \E r \in DOMAIN cfg :
        /\ ret[r].op = "create"
        /\ ret[r].err = Nil
        /\ Len(http[r]) = 3
        /\ d[r].id = cfg[r].name

\* C10: a Create never sends its creation request for a variable that
\* exists remotely at the moment the request is sent.
CreateNeverOverwrites ==
    [][\A r \in DOMAIN cfg :
          (pc[r] = "create_add" /\ pc'[r] # "create_add")
          => Key(cfg[r].project, cfg[r].name) \notin remote]_vars

====
